---------------------------- MODULE Spec2Model ----------------------------
(***************************************************************************)
(* Model of DarkOpt/_detector.py: the Detector constructor (geometry and   *)
(* efficiency derivation), calc_res, the three plot methods and print.     *)
(*                                                                         *)
(* Units: lengths in micrometres, areas in square micrometres, times in    *)
(* microseconds, frequencies in units of 0.1 Hz.  Real-valued quantities   *)
(* are exact rationals <<num, den>> (den > 0, lowest terms); the field     *)
(* operations + - * / are exact, np.sqrt rounds to the nearest point of a  *)
(* grid, and np.pi and np.sqrt(2) are the rationals Pi and Sqrt2.          *)
(* NaN is the value np.sqrt returns for a negative argument.               *)
(***************************************************************************)
EXTENDS Integers, Sequences, FiniteSets, TLC

VARIABLES
    heap,     \* the frequency arrays, by address; dets[i].freqs is an address
    dets,     \* the Detector objects, by instance
    ret,      \* what each instance's latest calc_res call returned
    calls,    \* how many calc_res calls each instance has served
    passive_arg,  \* the passive argument each instance was constructed with
    figures,  \* figures open on the process-wide plotting surface
    stdout    \* summaries written to standard output

vars == <<heap, dets, ret, calls, passive_arg, figures, stdout>>

-----------------------------------------------------------------------------
(* Bounds of the model *)

\* Grid of np.sqrt: results are rounded to the nearest 1/(den * SqrtScale).
SqrtScale == 10
\* n_channel is drawn from -1 .. MaxChannel.
MaxChannel == 2
\* Number of samples of the frequency axis (the code's default has 1e5).
NFreq == 2
\* Figures that may be open on the shared plotting surface.
MaxFigures == 1
\* Summaries that may be written to standard output.
MaxPrints == 1
\* calc_res calls counted per instance.
MaxCalls == 2

-----------------------------------------------------------------------------
(* Exact rational arithmetic *)

Abs(x) == IF x < 0 THEN -x ELSE x

RECURSIVE GCD(_, _)
GCD(a, b) == IF b = 0 THEN a ELSE GCD(b, a % b)

\* The rational n/d in lowest terms with a positive denominator (d # 0).
Norm(n, d) ==
    LET g == GCD(Abs(n), Abs(d))
        s == IF d < 0 THEN -1 ELSE 1
    IN  <<s * (n \div g), s * (d \div g)>>

Q(n) == <<n, 1>>

RAdd(a, b) ==
    LET g == GCD(a[2], b[2])
        l == (a[2] \div g) * b[2]
    IN  Norm(a[1] * (l \div a[2]) + b[1] * (l \div b[2]), l)

RNeg(a) == <<-a[1], a[2]>>

RSub(a, b) == RAdd(a, RNeg(b))

RMul(a, b) ==
    LET g1 == GCD(Abs(a[1]), b[2])
        g2 == GCD(Abs(b[1]), a[2])
    IN  Norm((a[1] \div g1) * (b[1] \div g2), (a[2] \div g2) * (b[2] \div g1))

\* a / b for b # 0
RDiv(a, b) == RMul(a, Norm(b[2], b[1]))

RLt(a, b) == RSub(a, b)[1] < 0

RLe(a, b) == RSub(a, b)[1] <= 0

-----------------------------------------------------------------------------
(* Floating-point values that are not numbers *)

NaN == <<"nan">>

\* x > y and x <= y as Python compares floats: every comparison with NaN is
\* false.
FGt(x, y) == x # NaN /\ y # NaN /\ RLt(y, x)

FLe(x, y) == x # NaN /\ y # NaN /\ RLe(x, y)

FMul(x, y) == IF x = NaN \/ y = NaN THEN NaN ELSE RMul(x, y)

\* x / y where a zero divisor does not raise (numpy floats): the quotient is
\* then inf or nan, which this model does not tell apart.
FDiv(x, y) == IF x = NaN \/ y = NaN \/ y[1] = 0 THEN NaN ELSE RDiv(x, y)

\* Largest r in lo..hi with r * r <= v (lo * lo <= v).
RECURSIVE ISqrtIn(_, _, _)
ISqrtIn(v, lo, hi) ==
    IF lo = hi THEN lo
    ELSE LET mid == (lo + hi + 1) \div 2
         IN  IF mid * mid <= v THEN ISqrtIn(v, mid, hi)
             ELSE ISqrtIn(v, lo, mid - 1)

\* The integer nearest to the square root of v >= 0.
NearestSqrt(v) ==
    LET r == ISqrtIn(v, 0, 46340)
    IN  IF v - r * r > r THEN r + 1 ELSE r

\* np.sqrt: NaN for a negative argument, otherwise the square root rounded
\* to the nearest grid point (exact whenever the root lies on the grid).
Sqrt(x) ==
    IF x[1] < 0 THEN NaN
    ELSE Norm(NearestSqrt(x[1] * x[2] * SqrtScale * SqrtScale),
              x[2] * SqrtScale)


-----------------------------------------------------------------------------
(* Values the caller passes to the constructor *)

\* The TES parameter holder read as QET.TES: sensor count, length, overlap
\* and the electrothermal operating point handed to the noise simulator.
TESParams(nTES, l) ==
    [nTES |-> nTES, l |-> l, l_overlap |-> 10,
     rl |-> Q(7), r0 |-> Q(150), rsh |-> Q(5), beta |-> Q(0), LG |-> Q(10),
     L |-> Q(1), tau0 |-> Q(500), Gep |-> Q(3), vbias |-> Q(20),
     t0 |-> Q(40), tload |-> Q(30), t_mc |-> Q(10), n |-> Q(5)]

\* The QET parameter holder: fin geometry, two efficiencies and its TES.
QETParams(l_fin, a_fin, tes) ==
    [l_fin |-> l_fin, h_fin |-> 1, a_fin |-> a_fin,
     eQPabsb |-> <<1, 2>>, ePQP |-> <<1, 2>>, TES |-> tes]

\* The absorber: shape tag, total and pattern surface area, radius (its _r,
\* returned by get_R), safety margin (_w_safety, returned by get_w_safety)
\* and phonon scattering length.
Absorber(shape, SA, pattern_SA, r, w_safety, lscat) ==
    [shape |-> shape, SA |-> SA, pattern_SA |-> pattern_SA, r |-> r,
     w_safety |-> w_safety, lscat |-> lscat]

get_pattern_SA(a) == Q(a.pattern_SA)

get_SA(a) == Q(a.SA)

get_R(a) == Q(a.r)

get_w_safety(a) == Q(a.w_safety)

scattering_length(a) == a.lscat

-----------------------------------------------------------------------------
(* Constants of the constructor *)

w_rail_main == 6
w_railQET == 3
one_alignment_window == 20772
PD2_absb_time == 20
PD2_fSA_qpabsb == <<214, 10000>>
PD2_lscat == <<19488, 10>>
e156 == <<869, 1000>>
e_downconvert == <<1, 4000>>
kpb == <<155, 1000000>>
nkpb == 4

\* np.pi and np.sqrt(2), to the precision of the model.
Pi == <<22, 7>>
Sqrt2 == <<7, 5>>

\* float ** 3000 raises OverflowError once the result leaves the double
\* range: |x| ^ 3000 > 1.8e308, that is |x| above about 1.2668.
PowOverflowBase == <<12668, 10000>>

\* Python's None, an attribute that was never assigned, and the two bools.
\* Like the numbers they are tuples, so that any two field values compare.
None == <<"None">>
Unset == <<>>
True == <<TRUE>>
False == <<FALSE>>

\* Every field a Detector may carry, none of them assigned yet.  a_cell,
\* QET_block, y_cell, a_passiveQET and tes_passive are locals of __init__,
\* kept beside the fields so that they can be observed.
NoFields ==
    [status |-> "running", line |-> 0,
     w_rail_main |-> Unset, w_railQET |-> Unset, name |-> Unset,
     absorber |-> Unset, n_channel |-> Unset, l_fin |-> Unset,
     h_fin |-> Unset, l_overlap |-> Unset, sigma_energy |-> Unset,
     QET |-> Unset, freqs |-> Unset, eres |-> Unset,
     SA_active |-> Unset, a_cell |-> Unset, QET_block |-> Unset,
     cells_fit |-> Unset, l_cell |-> Unset, w_cell |-> Unset,
     h_cell |-> Unset, y_cell |-> Unset, a_passiveQET |-> Unset,
     close_packed |-> Unset, tes_passive |-> Unset,
     total_alignment |-> Unset, SA_passive |-> Unset,
     fSA_qpabsorb |-> Unset, ePcollect |-> Unset, t_pabsb |-> Unset,
     w_collect |-> Unset, e_downconvert |-> Unset, e156 |-> Unset,
     eEabsb |-> Unset, fSA_active |-> Unset, fSA_passive |-> Unset,
     kpb |-> Unset, nkpb |-> Unset, noise |-> Unset]

\* __init__ left by an exception raised at the given source line.
Raise(self, error, line) == [self EXCEPT !.status = error, !.line = line]


-----------------------------------------------------------------------------
(* Detector.__init__ *)

\* Lines 48-66: rail widths, the arguments kept as they are, eres = None,
\* and the active surface area.
InitFields(name, absorber, QET, n_channel, freqs) ==
    [NoFields EXCEPT
        !.w_rail_main = Q(w_rail_main), !.w_railQET = Q(w_railQET),
        !.name = name, !.absorber = absorber, !.n_channel = n_channel,
        !.l_fin = QET.l_fin, !.h_fin = QET.h_fin,
        !.l_overlap = QET.TES.l_overlap, !.sigma_energy = 0,
        !.QET = QET, !.freqs = freqs, !.eres = None,
        !.SA_active = RMul(Q(n_channel * QET.TES.nTES), Q(QET.a_fin))]

\* Line 71.
QETBlock(QET) == Q((2 * QET.l_fin + QET.TES.l) * (2 * QET.l_fin))

\* CellsFit written with >= for >: a design that fits exactly is flagged.
CellsFitAtLeast(absorber, QET) ==
    IF RLe(get_pattern_SA(absorber), RMul(QETBlock(QET), Q(QET.TES.nTES)))
    THEN False
    ELSE True

\* Lines 72-75: the packing-feasibility flag.
CellsFit(absorber, QET) ==
    IF RLt(get_pattern_SA(absorber), RMul(QETBlock(QET), Q(QET.TES.nTES)))
    THEN False
    ELSE True

\* ClosePacked written with >= for >: l_cell = y_cell counts as not close
\* packed.
ClosePackedAtLeast(l_cell, y_cell) ==
    IF FGt(l_cell, y_cell) \/ l_cell = y_cell THEN False ELSE True

\* ClosePacked with the flags of the two branches exchanged.
ClosePackedSwapped(l_cell, y_cell) ==
    IF FGt(l_cell, y_cell) THEN True ELSE False

\* Line 83 and its else: the packing classification.
ClosePacked(l_cell, y_cell) == IF FGt(l_cell, y_cell) THEN False ELSE True

\* Lines 83-93: passive rail area of one QET (y_cell # 0 where the design is
\* close packed).
PassiveQET(a_cell, l_cell, y_cell) ==
    IF FGt(l_cell, y_cell)
    THEN RAdd(RMul(l_cell, Q(w_rail_main)),
              RMul(RSub(l_cell, y_cell), Q(w_railQET)))
    ELSE RMul(RDiv(a_cell, y_cell), Q(w_rail_main))

\* Lines 98-101: the rails of the PD2-like layout.
OuterRing(absorber) ==
    RMul(RMul(RMul(Q(2), Pi),
              RSub(get_R(absorber), get_w_safety(absorber))),
         Q(w_rail_main))

InnerRing(absorber) == RDiv(OuterRing(absorber), Sqrt2)

InnerVerticalRail(absorber) ==
    RMul(RMul(RMul(Q(3), RSub(get_R(absorber), get_w_safety(absorber))),
              Q(w_rail_main)),
         RSub(Q(1), RDiv(Sqrt2, Q(2))))

OuterVerticalRail(absorber) ==
    RMul(RMul(RSub(get_R(absorber), get_w_safety(absorber)),
              Q(w_rail_main)),
         RAdd(Q(1), RDiv(Sqrt2, Q(2))))

\* Line 105.
TotalAlignment == Q(5 * one_alignment_window)

\* The square layout's passive area (line 120).
SquarePassive(absorber, tes_passive) ==
    RAdd(RAdd(tes_passive,
              RMul(RMul(Q(2), RSub(Q(absorber.r),
                                   RMul(Q(2), Q(absorber.w_safety)))),
                   Q(w_rail_main))),
         RMul(Q(2), Q(one_alignment_window)))

\* The cylinder layout's passive area (line 117).
CylinderPassive(absorber, tes_passive) ==
    RAdd(RAdd(RAdd(RAdd(RAdd(tes_passive, OuterRing(absorber)),
                        InnerRing(absorber)),
                   InnerVerticalRail(absorber)),
              OuterVerticalRail(absorber)),
         TotalAlignment)

\* SAPassive without the idealized mode: passive = 0 is computed like
\* passive = 1.
SAPassiveNoIdeal(absorber, passive, tes_passive) ==
    IF absorber.shape = "cylinder"
    THEN CylinderPassive(absorber, tes_passive)
    ELSE IF absorber.shape = "square"
    THEN IF passive \in {0, 1}
         THEN SquarePassive(absorber, tes_passive)
         ELSE Unset
    ELSE Unset

\* SAPassive with the square layout as the else of the cylinder test: every
\* other shape is laid out as a square.
SAPassiveElseSquare(absorber, passive, tes_passive) ==
    IF absorber.shape = "cylinder"
    THEN CylinderPassive(absorber, tes_passive)
    ELSE IF passive = 1
         THEN SquarePassive(absorber, tes_passive)
         ELSE IF passive = 0 THEN Q(0) ELSE Unset

\* SAPassive testing the flag for truth ("if passive: ... else: ..."): every
\* nonzero passive is computed like passive = 1.
SAPassiveTruthy(absorber, passive, tes_passive) ==
    IF absorber.shape = "cylinder"
    THEN CylinderPassive(absorber, tes_passive)
    ELSE IF absorber.shape = "square"
    THEN IF passive # 0
         THEN SquarePassive(absorber, tes_passive)
         ELSE Q(0)
    ELSE Unset

\* Lines 116-122: the total passive surface area, Unset where no branch
\* assigns it.
SAPassive(absorber, passive, tes_passive) ==
    IF absorber.shape = "cylinder"
    THEN CylinderPassive(absorber, tes_passive)
    ELSE IF absorber.shape = "square"
    THEN IF passive = 1
         THEN SquarePassive(absorber, tes_passive)
         ELSE IF passive = 0 THEN Q(0) ELSE Unset
    ELSE Unset

\* Lines 183-197: the noise object built from the TES operating point and
\* the frequency axis (tes.rsh # 0).
TESnoise(freqs, tes) ==
    [freqs |-> freqs, rload |-> tes.rl, r0 |-> tes.r0, rshunt |-> tes.rsh,
     beta |-> tes.beta, loopgain |-> tes.LG, inductance |-> tes.L,
     tau0 |-> tes.tau0, G |-> tes.Gep, qetbias |-> RDiv(tes.vbias, tes.rsh),
     tc |-> tes.t0, tload |-> tes.tload, tbath |-> tes.t_mc, n |-> tes.n]

\* Whether SA_passive is a numpy float rather than a Python number: it is
\* one exactly when np.sqrt entered it, through np.sqrt(2) (cylinder) or
\* through l_cell (square, passive = 1, not close packed).  Dividing a
\* Python number by zero raises ZeroDivisionError and a Python float power
\* out of range raises OverflowError, while numpy floats give inf or nan
\* and a warning.
NumpyPassive(absorber, passive, l_cell, y_cell) ==
    \/ absorber.shape = "cylinder"
    \/ absorber.shape = "square" /\ passive = 1 /\ FGt(l_cell, y_cell)

\* Lines 125-197, entered with SA_passive assigned; np tells whether
\* SA_passive is a numpy float.
Efficiency(self, absorber, QET, np) ==
    LET SA == get_SA(absorber)
        metal == RAdd(self.SA_passive, self.SA_active)
    IN
    IF SA[1] = 0 /\ ~np THEN Raise(self, "ZeroDivisionError", 125) ELSE
    LET s125 == [self EXCEPT !.fSA_qpabsorb = FDiv(metal, SA)] IN
    IF metal[1] = 0 /\ ~np THEN Raise(s125, "ZeroDivisionError", 128) ELSE
    LET s128 == [s125 EXCEPT !.ePcollect = FDiv(self.SA_active, metal)] IN
    IF s128.fSA_qpabsorb = Q(0) /\ ~np
    THEN Raise(s128, "ZeroDivisionError", 143) ELSE
    LET t_pabsb == FMul(RMul(Q(PD2_absb_time),
                             RDiv(scattering_length(absorber), PD2_lscat)),
                        FDiv(PD2_fSA_qpabsb, s128.fSA_qpabsorb))
        s143 == [s128 EXCEPT !.t_pabsb = t_pabsb]
    IN
    IF t_pabsb = Q(0) /\ ~np THEN Raise(s143, "ZeroDivisionError", 145) ELSE
    LET s159 == [s143 EXCEPT !.w_collect = FDiv(Q(1), t_pabsb),
                             !.e_downconvert = e_downconvert]
        p_baresurface == FDiv(RSub(RSub(SA, self.SA_active), self.SA_passive),
                              SA)
    IN
    IF ~np /\ RLt(PowOverflowBase,
                  Norm(Abs(p_baresurface[1]), p_baresurface[2]))
    THEN Raise(s159, "OverflowError", 165) ELSE
    LET s172 == [s159 EXCEPT
                    !.e156 = e156,
                    !.eEabsb = FMul(FMul(FMul(e156, s159.ePcollect),
                                         QET.eQPabsb),
                                    QET.ePQP)]
    IN
    IF SA[1] = 0 THEN Raise(s172, "ZeroDivisionError", 174) ELSE
    [s172 EXCEPT
        !.fSA_active = RDiv(self.SA_active, SA),
        !.fSA_passive = RDiv(self.SA_passive, SA),
        !.kpb = kpb, !.nkpb = nkpb,
        !.noise = TESnoise(self.freqs, QET.TES),
        !.status = "ok"]

\* The whole constructor: the Detector it returns (status "ok"), or the
\* half-initialised object it leaves behind when a line raises.
Build(name, absorber, QET, passive, n_channel, freqs) ==
    LET tes == QET.TES
        s66 == InitFields(name, absorber, QET, n_channel, freqs)
    IN
    IF n_channel * tes.nTES = 0 THEN Raise(s66, "ZeroDivisionError", 69) ELSE
    LET a_cell == RDiv(get_pattern_SA(absorber), Q(n_channel * tes.nTES))
        l_cell == Sqrt(a_cell)
        w_cell == Sqrt(RDiv(a_cell, Q(2)))
        y_cell == Q(2 * QET.l_fin + tes.l)
        s81 == [s66 EXCEPT
                   !.a_cell = a_cell, !.QET_block = QETBlock(QET),
                   !.cells_fit = CellsFit(absorber, QET),
                   !.l_cell = l_cell, !.w_cell = w_cell,
                   !.h_cell = FMul(Q(2), w_cell), !.y_cell = y_cell]
    IN
    IF ClosePacked(l_cell, y_cell) = True /\ y_cell[1] = 0
    THEN Raise(s81, "ZeroDivisionError", 91) ELSE
    LET a_passiveQET == PassiveQET(a_cell, l_cell, y_cell)
        tes_passive == RMul(RMul(a_passiveQET, Q(n_channel)), Q(tes.nTES))
        SA_passive == SAPassive(absorber, passive, tes_passive)
        s122 == [s81 EXCEPT
                    !.a_passiveQET = a_passiveQET,
                    !.close_packed = ClosePacked(l_cell, y_cell),
                    !.tes_passive = tes_passive,
                    !.total_alignment = TotalAlignment,
                    !.SA_passive = SA_passive]
    IN
    IF SA_passive = Unset THEN Raise(s122, "AttributeError", 125)
    ELSE Efficiency(s122, absorber, QET,
                    NumpyPassive(absorber, passive, l_cell, y_cell))


-----------------------------------------------------------------------------
(* The frequency axis *)

\* np.linspace(lo, hi, n), n >= 2.
Linspace(lo, hi, n) ==
    [k \in 1..n |-> RAdd(lo, RDiv(RMul(Q(k - 1), RSub(hi, lo)), Q(n - 1)))]

\* Line 33: the default of freqs, one array made when the def statement
\* runs and handed to every call that passes no freqs.  It lives at
\* address 1.
DefaultFreqs == Linspace(<<1, 10>>, Q(1000000), NFreq)

DefaultAddr == 1

\* An axis a caller builds for one constructor call.
CallerFreqs == Linspace(Q(1), Q(1000), NFreq)

-----------------------------------------------------------------------------
(* The external noise simulator, as far as its results are determined *)

\* noise.s_ptot(): determined by the operating point the noise object was
\* built from and by the frequency array it was given.
SPtot(noise, h) == <<"s_ptot", [noise EXCEPT !.freqs = h[noise.freqs]]>>

\* qp.sim.energy_res_estimate: determined by its four arguments.
EnergyResEstimate(freqs, t_pabsb, s_ptot, eEabsb) ==
    <<"energy_res", freqs, t_pabsb, s_ptot, eEabsb>>

\* CalcResValue folding the stored eres into the estimate.
CalcResValueStateful(d, h) ==
    <<EnergyResEstimate(h[d.freqs], d.t_pabsb, SPtot(d.noise, h), d.eEabsb),
      d.eres>>

\* Lines 200-203: the value calc_res computes for Detector d on heap h.
CalcResValue(d, h) ==
    EnergyResEstimate(h[d.freqs], d.t_pabsb, SPtot(d.noise, h), d.eEabsb)

\* Lines 307-327: the values print writes.
Summary(d) ==
    <<d.n_channel, d.SA_active, d.fSA_active, d.l_cell, d.SA_passive,
      d.fSA_qpabsorb, d.fSA_passive, d.total_alignment, d.fSA_qpabsorb,
      d.ePcollect, d.t_pabsb, FDiv(Q(1), d.t_pabsb), d.e156, d.QET.eQPabsb,
      d.eEabsb, d.kpb, d.nkpb, d.QET.TES.nTES, d.QET.TES.L>>

-----------------------------------------------------------------------------
(* Arguments the callers of the model pass *)

Instances == {1, 2}

Absent == [NoFields EXCEPT !.status = "absent"]

Shapes == {"cylinder", "square", "hexagon"}
Passives == {0, 1, 2}
Channels == (-1) .. MaxChannel
FinAreas == {0, 10000, 600000}
FinLengths == {50}
TESLengths == {0, 100}
TESCounts == {4}
PatternSAs == {0, 39900, 40000, 79900, 80000, 80100, 640000}
SurfaceAreas == {1000000}
Radii == {4900}
SafetyWidths == {0, 2450, 4410}
ScatteringLengths == {PD2_lscat}

Absorbers ==
    {Absorber(sh, sa, psa, r, w, ls) :
        sh \in Shapes, sa \in SurfaceAreas, psa \in PatternSAs,
        r \in Radii, w \in SafetyWidths, ls \in ScatteringLengths}

QETs ==
    {QETParams(lf, af, TESParams(nt, l)) :
        lf \in FinLengths, af \in FinAreas, nt \in TESCounts,
        l \in TESLengths}

-----------------------------------------------------------------------------
(* Operations *)

\* Detector(name, absorber, QET, passive, n_channel) with the default freqs
\* (own = FALSE) or with an array the caller has just made (own = TRUE).
Construct(i, absorber, QET, p, n_channel, own) ==
    /\ dets[i].status = "absent"
    /\ heap' = IF own THEN Append(heap, CallerFreqs) ELSE heap
    /\ dets' = [dets EXCEPT ![i] =
                   Build(i, absorber, QET, p, n_channel,
                         IF own THEN Len(heap) + 1 ELSE DefaultAddr)]
    /\ passive_arg' = [passive_arg EXCEPT ![i] = p]
    /\ UNCHANGED <<ret, calls, figures, stdout>>

\* Lines 199-205.
CalcRes(i) ==
    /\ dets[i].status = "ok"
    /\ calls[i] < MaxCalls
    /\ dets' = [dets EXCEPT ![i].eres = CalcResValue(dets[i], heap)]
    /\ ret' = [ret EXCEPT ![i] = CalcResValue(dets[i], heap)]
    /\ calls' = [calls EXCEPT ![i] = @ + 1]
    /\ UNCHANGED <<heap, passive_arg, figures, stdout>>

\* PlotSi clearing the stored resolution as it plots.
PlotSiClearing(i) ==
    /\ dets[i].status = "ok"
    /\ figures < MaxFigures
    /\ figures' = figures + 1
    /\ dets' = [dets EXCEPT ![i].eres = None]
    /\ UNCHANGED <<heap, ret, calls, passive_arg, stdout>>

\* Lines 207-247: the noise queries change nothing; plt.subplots opens a
\* figure.
PlotSi(i) ==
    /\ dets[i].status = "ok"
    /\ figures < MaxFigures
    /\ figures' = figures + 1
    /\ UNCHANGED <<heap, dets, ret, calls, passive_arg, stdout>>

\* Lines 249-291.
PlotSp(i) ==
    /\ dets[i].status = "ok"
    /\ figures < MaxFigures
    /\ figures' = figures + 1
    /\ UNCHANGED <<heap, dets, ret, calls, passive_arg, stdout>>


\* Lines 293-302.
PlotResponsivity(i) ==
    /\ dets[i].status = "ok"
    /\ figures < MaxFigures
    /\ figures' = figures + 1
    /\ UNCHANGED <<heap, dets, ret, calls, passive_arg, stdout>>

\* Lines 306-327.
PrintSummary(i) ==
    /\ dets[i].status = "ok"
    /\ Len(stdout) < MaxPrints
    /\ stdout' = Append(stdout, Summary(dets[i]))
    /\ UNCHANGED <<heap, dets, ret, calls, passive_arg, figures>>

\* A caller stores v into element k of the array it reaches as
\* dets[i].freqs (d.freqs[k] = v).
FreqWrites == {Q(5)}

MutateFreqs(i, k, v) ==
    /\ dets[i].status = "ok"
    /\ heap[dets[i].freqs][k] # v
    /\ heap' = [heap EXCEPT ![dets[i].freqs][k] = v]
    /\ UNCHANGED <<dets, ret, calls, passive_arg, figures, stdout>>

-----------------------------------------------------------------------------
(* Specifications *)

\* The module has been imported: the default frequency array exists, no
\* Detector has been constructed, nothing has been plotted or printed.
Init ==
    /\ heap = <<DefaultFreqs>>
    /\ dets = [i \in Instances |-> Absent]
    /\ ret = [i \in Instances |-> Unset]
    /\ calls = [i \in Instances |-> 0]
    /\ passive_arg = [i \in Instances |-> 1]
    /\ figures = 0
    /\ stdout = <<>>

\* One Detector, constructed from any arguments of the domain with the
\* default frequency axis, then used.
Next ==
    \/ \E a \in Absorbers, q \in QETs, p \in Passives, n \in Channels :
          Construct(1, a, q, p, n, FALSE)
    \/ CalcRes(1)
    \/ PlotSi(1)
    \/ PlotSp(1)
    \/ PlotResponsivity(1)
    \/ PrintSummary(1)

Spec == Init /\ [][Next]_vars

\* Two Detectors of one process, each constructed from a valid design
\* point, used, and their frequency arrays written to by the caller.
SweepAbsorbers ==
    {Absorber("square", 1000000, psa, 4900, 0, PD2_lscat) :
        psa \in {80000, 640000}}

SweepQETs == {QETParams(50, 10000, TESParams(4, 100))}

NextShared ==
    \/ \E i \in Instances, a \in SweepAbsorbers, q \in SweepQETs,
          p \in {0, 1}, own \in BOOLEAN : Construct(i, a, q, p, 1, own)
    \/ \E i \in Instances : CalcRes(i)
    \/ \E i \in Instances : PlotSi(i)
    \/ \E i \in Instances : PlotSp(i)
    \/ \E i \in Instances : PlotResponsivity(i)
    \/ \E i \in Instances : PrintSummary(i)
    \/ \E i \in Instances, k \in 1..NFreq, v \in FreqWrites :
          MutateFreqs(i, k, v)

SpecShared == Init /\ [][NextShared]_vars


-----------------------------------------------------------------------------
(* Vocabulary of the properties *)

\* A constructor call has been made for d (whether or not it completed).
Attempted(d) == d.status # "absent"

\* __init__ reached line 95: both packing branches are behind it.
Classified(d) == d.tes_passive # Unset

\* The arguments d was constructed from are in range: n_channel >= 1,
\* nTES >= 1, a_fin >= 0, SA > 0, SA >= pattern_SA >= 0,
\* radius > w_safety >= 0 and a recognized shape.
ValidDesign(d) ==
    /\ d.n_channel >= 1
    /\ d.QET.TES.nTES >= 1
    /\ d.QET.a_fin >= 0
    /\ d.absorber.SA > 0
    /\ d.absorber.SA >= d.absorber.pattern_SA
    /\ d.absorber.pattern_SA >= 0
    /\ d.absorber.r > d.absorber.w_safety
    /\ d.absorber.w_safety >= 0
    /\ d.absorber.shape \in {"cylinder", "square"}

Recognized(d) == d.absorber.shape \in {"cylinder", "square"}

-----------------------------------------------------------------------------
(* C1 *)

\* C1: every Detector constructed from a valid design with passive in
\* {0, 1} has SA_active >= 0 and SA_passive >= 0, and its stored fractions
\* satisfy fSA_active + fSA_passive = fSA_qpabsorb.
C1_AreasNonNegative ==
    \A i \in Instances :
        (dets[i].status = "ok" /\ ValidDesign(dets[i])
            /\ passive_arg[i] \in {0, 1})
        => /\ dets[i].SA_active[1] >= 0
           /\ dets[i].SA_passive[1] >= 0
           /\ RAdd(dets[i].fSA_active, dets[i].fSA_passive)
                = dets[i].fSA_qpabsorb

-----------------------------------------------------------------------------
(* C2 *)

\* C2: once the constructor has classified the packing, l_cell <= y_cell
\* gives close_packed = True and a_passiveQET = (a_cell / y_cell) *
\* w_rail_main, l_cell > y_cell gives close_packed = False and
\* a_passiveQET = l_cell * w_rail_main + (l_cell - y_cell) * w_railQET;
\* exactly one of the two branches has been taken, and tes_passive =
\* a_passiveQET * n_channel * nTES in both.
C2_PackingClassification ==
    \A i \in Instances :
        (Attempted(dets[i]) /\ Classified(dets[i])) =>
            LET d == dets[i]
                a == RDiv(Q(d.absorber.pattern_SA),
                          Q(d.n_channel * d.QET.TES.nTES))
                y == Q(2 * d.QET.l_fin + d.QET.TES.l)
                l == d.l_cell
                close == /\ d.close_packed = True
                         /\ d.a_passiveQET = RMul(RDiv(a, y), Q(w_rail_main))
                open == /\ d.close_packed = False
                        /\ d.a_passiveQET
                             = RAdd(RMul(l, Q(w_rail_main)),
                                    RMul(RSub(l, y), Q(w_railQET)))
            IN  /\ d.a_cell = a /\ d.y_cell = y
                /\ FLe(l, y) => close
                /\ FGt(l, y) => open
                /\ close # open
                /\ d.tes_passive
                     = RMul(d.a_passiveQET,
                            Q(d.n_channel * d.QET.TES.nTES))

\* A design on the boundary l_cell = y_cell, classified close packed.
C2_Witness ==
    /\ dets[1].status = "ok"
    /\ dets[1].l_cell = dets[1].y_cell
    /\ dets[1].close_packed = True


-----------------------------------------------------------------------------
(* C3 *)

\* C3 as stated: every construction from a valid design with a square
\* absorber and passive = 0 has SA_passive = 0, ePcollect = 1,
\* fSA_passive = 0 and fSA_qpabsorb = fSA_active.
C3_IdealizedAlways ==
    \A i \in Instances :
        (Attempted(dets[i]) /\ ValidDesign(dets[i])
            /\ dets[i].absorber.shape = "square" /\ passive_arg[i] = 0)
        => /\ dets[i].SA_passive = Q(0)
           /\ dets[i].ePcollect = Q(1)
           /\ dets[i].fSA_passive = Q(0)
           /\ dets[i].fSA_qpabsorb = dets[i].fSA_active

\* C3, amended: a square absorber with passive = 0 gets SA_passive = 0 as
\* soon as the packing is classified; whenever SA_passive = 0 and SA_active
\* is not 0 as well, a completed Detector has ePcollect = 1, fSA_passive = 0
\* and fSA_qpabsorb = fSA_active, and a valid square design with passive = 0,
\* a_fin > 0, l_fin > 0, a positive scattering length and SA_active <= SA
\* does complete; with SA_passive = 0 and SA_active = 0 the
\* quotient ePcollect is 0/0, line 128 raises ZeroDivisionError and
\* ePcollect is never assigned.
C3_Idealized ==
    \A i \in Instances :
        LET d == dets[i] IN
        /\ (Attempted(d) /\ Classified(d) /\ d.absorber.shape = "square"
                /\ passive_arg[i] = 0)
           => d.SA_passive = Q(0)
        /\ (d.status = "ok" /\ d.SA_passive = Q(0))
           => /\ d.SA_active # Q(0)
              /\ d.ePcollect = Q(1)
              /\ d.fSA_passive = Q(0)
              /\ d.fSA_qpabsorb = d.fSA_active
        /\ (Attempted(d) /\ ValidDesign(d) /\ d.absorber.shape = "square"
                /\ passive_arg[i] = 0 /\ d.QET.a_fin > 0
                /\ d.QET.l_fin > 0 /\ d.absorber.lscat[1] > 0
                /\ RLe(d.SA_active, Q(d.absorber.SA)))
           => d.status = "ok"
        /\ (Attempted(d) /\ d.SA_passive = Q(0) /\ d.SA_active = Q(0)
                /\ d.absorber.SA # 0)
           => /\ d.status = "ZeroDivisionError" /\ d.line = 128
              /\ d.ePcollect = Unset

\* The idealized mode on a non-close-packed square design.
C3_Witness ==
    /\ dets[1].status = "ok"
    /\ dets[1].absorber.shape = "square"
    /\ passive_arg[1] = 0
    /\ dets[1].close_packed = False
    /\ dets[1].ePcollect = Q(1)

-----------------------------------------------------------------------------
(* C4 *)

\* C4: for an absorber whose shape is neither "cylinder" nor "square" the
\* constructor never assigns SA_passive and never completes: fSA_qpabsorb,
\* ePcollect, t_pabsb, eEabsb and noise stay unassigned, and whenever the
\* arithmetic before it succeeds the failure is the AttributeError of
\* line 125, the first use of SA_passive.
C4_UnknownShapeFails ==
    \A i \in Instances :
        LET d == dets[i] IN
        (Attempted(d) /\ ~Recognized(d))
        => /\ d.SA_passive = Unset
           /\ d.status # "ok"
           /\ d.fSA_qpabsorb = Unset /\ d.ePcollect = Unset
           /\ d.t_pabsb = Unset /\ d.eEabsb = Unset /\ d.noise = Unset
           /\ Classified(d) => (d.status = "AttributeError" /\ d.line = 125)
           /\ (d.n_channel * d.QET.TES.nTES # 0 /\ d.QET.l_fin > 0)
              => Classified(d)

\* A hexagonal absorber whose construction stopped at line 125.
C4_Witness ==
    /\ Attempted(dets[1])
    /\ dets[1].absorber.shape = "hexagon"
    /\ dets[1].status = "AttributeError"
    /\ dets[1].n_channel = 1

-----------------------------------------------------------------------------
(* C5 *)

\* The rest of the design is in range (whatever n_channel and passive are),
\* and its fins cover no more than the absorber's surface.
OtherwiseValid(d) ==
    /\ d.n_channel # 0
    /\ Abs(d.n_channel) * d.QET.TES.nTES * d.QET.a_fin <= d.absorber.SA
    /\ d.QET.TES.nTES >= 1
    /\ d.QET.a_fin > 0
    /\ d.QET.l_fin > 0
    /\ d.absorber.SA > 0
    /\ d.absorber.SA >= d.absorber.pattern_SA
    /\ d.absorber.pattern_SA >= 0
    /\ d.absorber.r > d.absorber.w_safety
    /\ d.absorber.w_safety >= 0

\* C5 as stated: with a recognized shape, a negative n_channel or a passive
\* flag outside {0, 1} never keeps construction from completing.
C5_OutOfRangeCompletes ==
    \A i \in Instances :
        (Attempted(dets[i]) /\ Recognized(dets[i])
            /\ OtherwiseValid(dets[i])
            /\ (dets[i].n_channel < 0 \/ passive_arg[i] \notin {0, 1}))
        => dets[i].status = "ok"

\* C5, amended: nothing validates n_channel or passive.  With a cylinder,
\* or a square and passive in {0, 1}, a negative n_channel is computed with
\* like any other: construction can stop only where the arithmetic does
\* (ZeroDivisionError, OverflowError), and where it completes from a
\* positive pattern_SA it has l_cell = NaN, close_packed = True and
\* SA_active < 0.  A cylinder ignores passive.  A square absorber with
\* passive outside {0, 1} never gets SA_passive assigned, and construction
\* fails with the AttributeError of line 125.
C5_OutOfRange ==
    \A i \in Instances :
        LET d == dets[i] IN
        (Attempted(d) /\ Recognized(d) /\ OtherwiseValid(d)) =>
            /\ (d.n_channel < 0
                  /\ (d.absorber.shape = "cylinder"
                        \/ passive_arg[i] \in {0, 1}))
               => /\ d.status \in {"ok", "ZeroDivisionError",
                                   "OverflowError"}
                  /\ (d.status = "ok" /\ d.absorber.pattern_SA > 0)
                     => /\ d.l_cell = NaN
                        /\ d.close_packed = True
                        /\ d.SA_active[1] < 0
            /\ (d.absorber.shape = "cylinder" /\ d.n_channel >= 1)
               => d.status = "ok"
            /\ (d.absorber.shape = "square" /\ passive_arg[i] \notin {0, 1})
               => /\ d.status = "AttributeError" /\ d.line = 125
                  /\ d.SA_passive = Unset

\* A square absorber constructed with passive = 2.
C5_Witness ==
    /\ Attempted(dets[1])
    /\ dets[1].absorber.shape = "square"
    /\ passive_arg[1] = 2
    /\ dets[1].QET.a_fin > 0
    /\ dets[1].n_channel = -1
    /\ dets[1].status = "AttributeError"


-----------------------------------------------------------------------------
(* C6 *)

\* C6: calc_res is idempotent: a calc_res call that follows an earlier one
\* on the same Detector returns what the earlier call returned, and after
\* every call the stored eres is the value the call returned.
C6_CalcResIdempotent ==
    /\ [](\A i \in Instances : calls[i] > 0 => dets[i].eres = ret[i])
    /\ [][\A i \in Instances :
            (calls[i] > 0 /\ calls'[i] = calls[i] + 1) => ret'[i] = ret[i]]_vars

\* calc_res has been called twice on one Detector.
C6_Witness ==
    /\ calls[1] = 2
    /\ ret[1] # Unset
    /\ dets[1].eres = ret[1]

-----------------------------------------------------------------------------
(* C7 *)

\* Every stored field of d but eres.
Frame(d) == [d EXCEPT !.eres = None]

\* C7: on a constructed Detector eres is None exactly until the first
\* calc_res call; a step changes eres only if it is a calc_res call of that
\* Detector; and no calc_res, plot_si, plot_sp, plot_responsivity or print
\* call changes any other stored field.
C7_LifecycleAndFrame ==
    /\ [](\A i \in Instances :
            dets[i].status = "ok" => (calls[i] = 0 <=> dets[i].eres = None))
    /\ [][\A i \in Instances :
            dets[i].status = "ok" =>
                /\ Frame(dets'[i]) = Frame(dets[i])
                /\ dets'[i].eres # dets[i].eres => CalcRes(i)]_vars

\* Every method has been called on one Detector.
C7_Witness ==
    /\ dets[1].status = "ok"
    /\ calls[1] > 0
    /\ dets[1].eres # None
    /\ figures > 0
    /\ Len(stdout) > 0

-----------------------------------------------------------------------------
(* C8 *)

\* What a caller observes through Detector d on heap h: its frequency axis,
\* its stored fields and the value calc_res would return.
Observed(d, h) == <<h[d.freqs], d, CalcResValue(d, h)>>

\* C8: Detectors share no mutable state: no method call on one instance,
\* and no store into an array reached from one instance, changes anything
\* observed through another instance.
C8_NoSharedState ==
    [][\A i \in Instances : \A j \in Instances \ {i} :
         (/\ dets[j].status = "ok"
          /\ \/ CalcRes(i) \/ PlotSi(i) \/ PlotSp(i) \/ PlotResponsivity(i)
             \/ PrintSummary(i)
             \/ \E k \in 1..NFreq, v \in FreqWrites : MutateFreqs(i, k, v))
         => Observed(dets'[j], heap') = Observed(dets[j], heap)]_vars

-----------------------------------------------------------------------------
(* C9 *)

\* C9: cells_fit is False exactly when QET_block * nTES > pattern_SA with
\* QET_block = (2 * l_fin + tes.l) * (2 * l_fin), so with l_fin = 50,
\* tes.l = 100 and nTES = 4 it flips at pattern_SA = 80000; the flag never
\* stops construction and selects no rule: SA_passive follows from shape,
\* passive and tes_passive alone, and an otherwise valid design with passive
\* in {0, 1}, SA_passive >= 0 and fins that fit on the absorber completes
\* whether or not its cells fit.
C9_CellsFitDiagnostic ==
    \A i \in Instances :
        LET d == dets[i] IN
        Attempted(d) =>
            /\ d.n_channel * d.QET.TES.nTES # 0
               => /\ d.cells_fit \in {True, False}
                  /\ d.cells_fit = False
                       <=> (2 * d.QET.l_fin + d.QET.TES.l) * (2 * d.QET.l_fin)
                              * d.QET.TES.nTES > d.absorber.pattern_SA
                  /\ (d.QET.l_fin = 50 /\ d.QET.TES.l = 100
                        /\ d.QET.TES.nTES = 4)
                     => (d.cells_fit = False
                           <=> d.absorber.pattern_SA < 80000)
            /\ Classified(d)
               => d.SA_passive
                    = SAPassive(d.absorber, passive_arg[i], d.tes_passive)
            /\ (ValidDesign(d) /\ OtherwiseValid(d)
                  /\ passive_arg[i] \in {0, 1}
                  /\ d.absorber.lscat[1] > 0
                  /\ d.SA_passive[1] >= 0)
               => d.status = "ok"

\* An infeasible design just below the threshold, constructed all the same.
C9_Witness ==
    /\ dets[1].status = "ok"
    /\ dets[1].cells_fit = False
    /\ dets[1].absorber.pattern_SA = 79900
    /\ dets[1].QET.TES.l = 100
    /\ dets[1].n_channel = 1

-----------------------------------------------------------------------------
(* C10 *)

\* C10: for n_channel >= 1, nTES >= 1, l_fin > 0 and tes.l >= 0 an
\* infeasible design is classified close packed: cells_fit = False implies
\* close_packed = True.
C10_InfeasibleIsClosePacked ==
    \A i \in Instances :
        LET d == dets[i] IN
        (Attempted(d) /\ d.n_channel >= 1 /\ d.QET.TES.nTES >= 1
            /\ d.QET.l_fin > 0 /\ d.QET.TES.l >= 0)
        => /\ d.close_packed \in {True, False}
           /\ d.cells_fit = False => d.close_packed = True

\* Two channels of an infeasible design: l_cell is well below y_cell.
C10_Witness ==
    /\ Attempted(dets[1])
    /\ dets[1].n_channel = 2
    /\ dets[1].cells_fit = False
    /\ dets[1].close_packed = True
    /\ FLe(dets[1].l_cell, dets[1].y_cell)

=============================================================================
